---- MODULE Spec2Model ----
(***************************************************************************)
(* OTP authentication and session-token lifecycle of the CITSA backend     *)
(* (auth service: sendOtp, resendOtp, verifyOtp, refreshAccessToken,       *)
(* logout, logoutAll, cleanupExpiredTokens).                               *)
(*                                                                         *)
(* Every handler is an async function; each `await` on the store is one    *)
(* atomic store operation and a point where other requests interleave.     *)
(* A handler is therefore a sequence of steps, one per awaited store       *)
(* call, run by a request slot p \in Procs; pc[p] is the slot's position   *)
(* and loc[p] the handler's local variables.                               *)
(*                                                                         *)
(* Time is counted in minutes.  createdAt/expiresAt are minute stamps;     *)
(* records created in the same minute are ordered by their id, which       *)
(* grows in insertion order (as createdAt does in the store).              *)
(***************************************************************************)
EXTENDS Integers, FiniteSets, Sequences, TLC

VARIABLES
    now,        \* the clock, in minutes
    active,     \* user.isActive, per student
    verified,   \* user.isVerified, per student
    otps,       \* table otpVerification: set of rows
    nextOtp,    \* id of the next otpVerification row
    tokens,     \* table refreshToken: set of rows
    lastIat,    \* per student: the JWT of the last sign call (its iat second)
    pc,         \* per request slot: position in its handler
    loc,        \* per request slot: the handler's locals
    cleanup,    \* the setInterval cleanup job
    issued,     \* history: every OTP row ever stored, <<id, email, createdAt, count>>,
                \* count being the recentCount its call had read
    superseded, \* history: ids of the rows that existed when a resend invalidated
    wins,       \* history: <<otp id, k, nextOtp>>: the k-th success of verifyOtp
    minted,     \* history: every refresh token value ever stored
    revoked,    \* history: token values whose logout has completed
    swept,      \* history: token values deleted by a logoutAll
    mask,       \* an account email and the email field of the response to
                \* sendOtp or resendOtp for it, as strings of characters
    event,      \* one row of table event with its eventRegistration rows
    accounts    \* the user rows of the administrators: role, isActive

vars == <<now, active, verified, otps, nextOtp, tokens, lastIat,
          pc, loc, cleanup, issued, superseded, wins, minted, revoked, swept,
          mask, event, accounts>>

store == <<active, verified, otps, nextOtp, tokens, lastIat>>
hist == <<issued, superseded, wins, minted, revoked, swept>>

-----------------------------------------------------------------------------
(* Bounds of the model *)

MaxTime == 1        \* last minute of the clock, concurrent specification
MaxOtps == 2        \* OTP rows stored in one run, concurrent specification
MaxTimeRate == 6    \* last minute of the clock, rate-limit specifications
MaxSignIns == 1     \* OTP rows stored in one run, session specification
MaxTimeLife == 3    \* last minute of the clock, row-life specification
MaxCapacity == 2    \* largest capacityMax of an event
MaxLocal == 6       \* longest local part of an email address
MaxFails == 1       \* failed deletes of the cleanup job in one run of the model
MaxTokens == 2      \* OTP rows stored in one run, token specification

(* Configuration: config.otp defaults, and the durations written in the code *)

expirySeconds == 60
maxAttempts == 3
rateLimitWindowMinutes == 5
rateLimitMaxRequests == 3
refreshExpiryDays == 30
jwtRefreshExpiryDays == 30
accessExpiryMinutes == 60    \* jwt accessExpiry "1h"
dstShiftMinutes == 60
cleanupIntervalMinutes == 60

otpExpiryMinutes == expirySeconds \div 60
refreshExpiryMinutes == refreshExpiryDays * 24 * 60
jwtRefreshExpiryMinutes == jwtRefreshExpiryDays * 24 * 60

\* Request slots: requests in flight at the same time.
Procs == {1, 2}
\* The codes generateOtpCode draws from, and the codes a client submits.
Codes == {1, 2}

(* Accounts of the user table; "s0" is a student id with no row. *)
Users == {"s1", "s2"}
emailOf(s) == IF s = "s1" THEN "e1" ELSE "e2"

-----------------------------------------------------------------------------
(* Locals and outcomes *)

NoMask == [email |-> <<>>, op |-> "-", reply |-> <<>>]
NoTok == [uid |-> "-", iat |-> 0, n |-> 0]
Forged == [uid |-> "s1", iat |-> 0, n |-> -1]
\* replay is history: the call started after the event it repeats (verifyOtp:
\* a success with its code; refreshAccessToken: a logout of its token).
\* afterAll is history: the refreshAccessToken call started after a logoutAll
\* had deleted its token.  cnt is recentCount, n a number of the response or a record id.
\* role is the role asked for by changeUserRole, was the isActive of the user
\* row that toggleUserActive read.
NoLoc ==
    [op |-> "-", sid |-> "-", code |-> 0, otp |-> 0, att |-> 0, tok |-> NoTok,
     status |-> "-", n |-> 0, mail |-> "none", replay |-> FALSE, cnt |-> 0,
     afterAll |-> FALSE, role |-> "-", was |-> FALSE]

Free(p) == pc[p] = "idle"

\* The handler returns or throws: the controller answers with the outcome.
Finish(p, op, status, l, n) ==
    /\ pc' = [pc EXCEPT ![p] = "done"]
    /\ loc' = [loc EXCEPT ![p] =
                 [l EXCEPT !.op = op, !.status = status, !.n = n, !.att = 0]]

Goto(p, label, l) ==
    /\ pc' = [pc EXCEPT ![p] = label]
    /\ loc' = [loc EXCEPT ![p] = l]

\* The response has been sent: the request slot is free again.
Respond(p) ==
    /\ pc[p] = "done"
    /\ pc' = [pc EXCEPT ![p] = "idle"]
    /\ loc' = [loc EXCEPT ![p] = NoLoc]
    /\ UNCHANGED <<now, mask, event, accounts, store, cleanup, hist>>

Done(p, op, status) ==
    pc[p] = "done" /\ loc[p].op = op /\ loc[p].status = status

-----------------------------------------------------------------------------
(* OTP rows *)

BcryptHash(c) == <<"bcrypt", c>>
BcryptCompare(c, h) == h = BcryptHash(c)

\* Mutant: the new row starts with the attempts of the email's worst row.
NewOtpRecord_Carrying(id, email, c) ==
    LET old == {r.attempts : r \in {x \in otps : x.email = email}} IN
    [id |-> id, email |-> email, otpCode |-> BcryptHash(c), createdAt |-> now,
     expiresAt |-> now + otpExpiryMinutes,
     attempts |-> IF old = {} THEN 0 ELSE CHOOSE a \in old : \A b \in old : b <= a,
     isUsed |-> FALSE]

NewOtpRecord(id, email, c) ==
    [id |-> id, email |-> email, otpCode |-> BcryptHash(c), createdAt |-> now,
     expiresAt |-> now + otpExpiryMinutes, attempts |-> 0, isUsed |-> FALSE]

\* prisma.otpVerification.count({email, createdAt >= now - window})
RecentRows(email, t) ==
    {r \in otps : r.email = email /\ r.createdAt >= t - rateLimitWindowMinutes}

RecentCount(email) == Cardinality(RecentRows(email, now))

\* Mutant: the comparison is off by one.
RateLimitHit_OffByOne(email) == RecentCount(email) > rateLimitMaxRequests

RateLimitHit(email) == RecentCount(email) >= rateLimitMaxRequests

-----------------------------------------------------------------------------
(* sendOtp *)

\* Mutant: the isActive check is missing.
AccountCheck_NoActive(p, op, sid, next) ==
    LET l == [NoLoc EXCEPT !.op = op, !.sid = sid] IN
    IF sid \notin Users THEN Finish(p, op, "NotFound", l, 0)
    ELSE Goto(p, next, l)

AccountCheck(p, op, sid, next) ==
    LET l == [NoLoc EXCEPT !.op = op, !.sid = sid] IN
    IF sid \notin Users THEN Finish(p, op, "NotFound", l, 0)
    ELSE IF ~active[sid] THEN Finish(p, op, "AccountInactive", l, 0)
    ELSE Goto(p, next, l)

SendOtp_Start(p, sid) ==
    /\ Free(p)
    /\ AccountCheck(p, "sendOtp", sid, "send_count")
    /\ UNCHANGED <<now, mask, event, accounts, store, cleanup, hist>>

SendOtp_Count(p) ==
    /\ pc[p] = "send_count"
    /\ IF RateLimitHit(emailOf(loc[p].sid))
          THEN Finish(p, "sendOtp", "RateLimited", loc[p], 0)
          ELSE Goto(p, "send_create",
                    [loc[p] EXCEPT !.cnt = RecentCount(emailOf(loc[p].sid))])
    /\ UNCHANGED <<now, mask, event, accounts, store, cleanup, hist>>

StoreOtp(p, c, next) ==
    LET email == emailOf(loc[p].sid) IN
    /\ otps' = otps \cup {NewOtpRecord(nextOtp, email, c)}
    /\ nextOtp' = nextOtp + 1
    /\ issued' = issued \cup {<<nextOtp, email, now, loc[p].cnt>>}
    /\ Goto(p, next, [loc[p] EXCEPT !.otp = nextOtp, !.code = c, !.cnt = 0])

\* Mutant: sendOtp marks the earlier rows of the email used, as resendOtp does.
SendOtp_Create_Invalidating(p, c) ==
    LET email == emailOf(loc[p].sid) IN
    /\ pc[p] = "send_create"
    /\ otps' = {[r EXCEPT !.isUsed = r.isUsed \/ r.email = email] : r \in otps}
                  \cup {NewOtpRecord(nextOtp, email, c)}
    /\ nextOtp' = nextOtp + 1
    /\ issued' = issued \cup {<<nextOtp, email, now, loc[p].cnt>>}
    /\ Goto(p, "send_email", [loc[p] EXCEPT !.otp = nextOtp, !.code = c, !.cnt = 0])
    /\ UNCHANGED <<now, mask, event, accounts, active, verified, tokens, lastIat, cleanup,
                   superseded, wins, minted, revoked, swept>>

SendOtp_Create(p, c) ==
    /\ pc[p] = "send_create"
    /\ StoreOtp(p, c, "send_email")
    /\ UNCHANGED <<now, mask, event, accounts, active, verified, tokens, lastIat, cleanup,
                   superseded, wins, minted, revoked, swept>>

DeliverOtp(p, op, ok) ==
    IF ok THEN Finish(p, op, "Success", [loc[p] EXCEPT !.mail = "sent"], 0)
          ELSE Finish(p, op, "ExternalServiceError", [loc[p] EXCEPT !.mail = "failed"], 0)

\* Mutant: a failed delivery rolls the stored row back.
SendOtp_Email_RollingBack(p, ok) ==
    /\ pc[p] = "send_email"
    /\ DeliverOtp(p, "sendOtp", ok)
    /\ otps' = IF ok THEN otps ELSE {r \in otps : r.id # loc[p].otp}
    /\ UNCHANGED <<now, mask, event, accounts, active, verified, nextOtp, tokens, lastIat, cleanup, hist>>

SendOtp_Email(p, ok) ==
    /\ pc[p] = "send_email"
    /\ DeliverOtp(p, "sendOtp", ok)
    /\ UNCHANGED <<now, mask, event, accounts, store, cleanup, hist>>

-----------------------------------------------------------------------------
(* resendOtp *)

ResendOtp_Start(p, sid) ==
    /\ Free(p)
    /\ AccountCheck(p, "resendOtp", sid, "resend_count")
    /\ UNCHANGED <<now, mask, event, accounts, store, cleanup, hist>>

\* Mutant: the earlier rows are invalidated before the rate limit is checked.
ResendOtp_Count_Invalidating(p) ==
    /\ pc[p] = "resend_count"
    /\ IF RateLimitHit(emailOf(loc[p].sid))
          THEN Finish(p, "resendOtp", "RateLimited", loc[p], 0)
          ELSE Goto(p, "resend_invalidate",
                    [loc[p] EXCEPT !.cnt = RecentCount(emailOf(loc[p].sid))])
    /\ otps' = {[r EXCEPT !.isUsed = r.isUsed \/ r.email = emailOf(loc[p].sid)] :
                   r \in otps}
    /\ UNCHANGED <<now, mask, event, accounts, active, verified, nextOtp, tokens, lastIat,
                   cleanup, hist>>

ResendOtp_Count(p) ==
    /\ pc[p] = "resend_count"
    /\ IF RateLimitHit(emailOf(loc[p].sid))
          THEN Finish(p, "resendOtp", "RateLimited", loc[p], 0)
          ELSE Goto(p, "resend_invalidate",
                    [loc[p] EXCEPT !.cnt = RecentCount(emailOf(loc[p].sid))])
    /\ UNCHANGED <<now, mask, event, accounts, store, cleanup, hist>>

\* Mutant: the updateMany matches no row (the invalidation is lost).
InvalidateRows_Lost(email) == otps

\* Mutant: the update flips isUsed of the email's rows.
InvalidateRows_Toggling(email) ==
    {IF r.email = email THEN [r EXCEPT !.isUsed = ~r.isUsed] ELSE r : r \in otps}

\* updateMany({email, isUsed: false}, {isUsed: true})
InvalidateRows(email) ==
    {IF r.email = email /\ ~r.isUsed THEN [r EXCEPT !.isUsed = TRUE] ELSE r : r \in otps}

ResendOtp_Invalidate(p) ==
    LET email == emailOf(loc[p].sid) IN
    /\ pc[p] = "resend_invalidate"
    /\ otps' = InvalidateRows(email)
    /\ superseded' = superseded \cup {r.id : r \in {x \in otps : x.email = email}}
    /\ Goto(p, "resend_create", loc[p])
    /\ UNCHANGED <<now, mask, event, accounts, active, verified, nextOtp, tokens, lastIat, cleanup,
                   issued, wins, minted, revoked, swept>>

ResendOtp_Create(p, c) ==
    /\ pc[p] = "resend_create"
    /\ StoreOtp(p, c, "resend_email")
    /\ UNCHANGED <<now, mask, event, accounts, active, verified, tokens, lastIat, cleanup,
                   superseded, wins, minted, revoked, swept>>

ResendOtp_Email(p, ok) ==
    /\ pc[p] = "resend_email"
    /\ DeliverOtp(p, "resendOtp", ok)
    /\ UNCHANGED <<now, mask, event, accounts, store, cleanup, hist>>

-----------------------------------------------------------------------------
(* verifyOtp *)

\* History: rows of the email that a verifyOtp has succeeded on, that carry the
\* code c, with no OTP row stored since that success.
WonRows(email, c) ==
    {r \in otps : /\ r.email = email
                  /\ BcryptCompare(c, r.otpCode)
                  /\ \E w \in wins : w[1] = r.id /\ w[3] = nextOtp}

VerifyOtp_Start(p, sid, code) ==
    LET l == [NoLoc EXCEPT !.op = "verifyOtp", !.sid = sid, !.code = code,
                           !.replay = (sid \in Users /\ WonRows(emailOf(sid), code) # {})] IN
    /\ Free(p)
    /\ IF sid \notin Users
          THEN Finish(p, "verifyOtp", "NotFound", l, 0)
          ELSE Goto(p, "verify_find", l)
    /\ UNCHANGED <<now, mask, event, accounts, store, cleanup, hist>>

\* findFirst where {email, isUsed: false, expiresAt >= now}
Selectable(email) ==
    {r \in otps : r.email = email /\ ~r.isUsed /\ r.expiresAt >= now}

\* orderBy createdAt desc: the row stored last
\* Mutant: the oldest row is taken.
Newest_Oldest(rows) == CHOOSE r \in rows : \A q \in rows : q.id >= r.id

Newest(rows) == CHOOSE r \in rows : \A x \in rows : x.id <= r.id

\* Mutant: the limit is enforced one attempt late.
AttemptsExhausted_Late(r) == r.attempts > maxAttempts

AttemptsExhausted(r) == r.attempts >= maxAttempts

VerifyOtp_Find(p) ==
    LET cand == Selectable(emailOf(loc[p].sid))
        l0 == [loc[p] EXCEPT !.replay = FALSE] IN
    /\ pc[p] = "verify_find"
    /\ IF cand = {}
          THEN Finish(p, "verifyOtp", "OtpExpired", l0, 0)
          ELSE LET r == Newest(cand)
                   l == [l0 EXCEPT !.otp = r.id, !.att = r.attempts] IN
               IF AttemptsExhausted(r)
                  THEN Finish(p, "verifyOtp", "OtpMaxAttempts", l, 0)
                  ELSE IF ~BcryptCompare(loc[p].code, r.otpCode)
                          THEN Goto(p, "verify_increment", l)
                          ELSE Goto(p, "verify_mark", [l EXCEPT !.att = 0])
    /\ UNCHANGED <<now, mask, event, accounts, store, cleanup, hist>>

RowExists(id) == \E r \in otps : r.id = id

\* update({id}, {attempts: {increment: 1}})
IncrementAttempts(id) ==
    {IF r.id = id THEN [r EXCEPT !.attempts = r.attempts + 1] ELSE r : r \in otps}

VerifyOtp_Increment(p) ==
    /\ pc[p] = "verify_increment"
    /\ IF RowExists(loc[p].otp)
          THEN /\ otps' = IncrementAttempts(loc[p].otp)
               /\ Finish(p, "verifyOtp", "OtpInvalid", loc[p],
                         maxAttempts - loc[p].att - 1)
          ELSE /\ otps' = otps
               /\ Finish(p, "verifyOtp", "RecordNotFound", loc[p], 0)
    /\ UNCHANGED <<now, mask, event, accounts, active, verified, nextOtp, tokens, lastIat, cleanup, hist>>

\* Mutant: the verified row is left unused.
MarkUsed_Skipped(id) == otps

\* update({id}, {isUsed: true})
MarkUsed(id) ==
    {IF r.id = id THEN [r EXCEPT !.isUsed = TRUE] ELSE r : r \in otps}

VerifyOtp_Mark(p) ==
    /\ pc[p] = "verify_mark"
    /\ IF RowExists(loc[p].otp)
          THEN /\ otps' = MarkUsed(loc[p].otp)
               /\ Goto(p, "verify_token", loc[p])
          ELSE /\ otps' = otps
               /\ Finish(p, "verifyOtp", "RecordNotFound", loc[p], 0)
    /\ UNCHANGED <<now, mask, event, accounts, active, verified, nextOtp, tokens, lastIat, cleanup, hist>>

\* jwt.sign(payload, secret, {expiresIn}): the token is a function of the payload
\* and of iat, the clock in whole seconds.  sameSecond says whether the clock
\* still shows the second of the student's previous sign call.
SignJwt(uid, sameSecond) ==
    LET prev == lastIat[uid] IN
    IF prev # NoTok /\ prev.iat = now
       THEN IF sameSecond THEN prev ELSE [prev EXCEPT !.n = prev.n + 1]
       ELSE [uid |-> uid, iat |-> now, n |-> 0]

\* refreshExpiresAt.setDate(getDate() + 30) moves the local calendar date: the
\* 30 days are 30 * 24 hours, or an hour less across a daylight-saving change.
CalendarDays30 == {refreshExpiryMinutes - dstShiftMinutes, refreshExpiryMinutes}

\* The record's id is its rank among the records ever created.
NewRefreshToken(tok, uid, days) ==
    [id |-> Cardinality(wins) + 1, token |-> tok, userId |-> uid,
     expiresAt |-> now + days]

TokenStored(tok) == \E t \in tokens : t.token = tok

NextWin(id) == <<id, Cardinality({w \in wins : w[1] = id}) + 1, nextOtp>>

VerifyOtp_Token(p, sameSecond, days) ==
    LET uid == loc[p].sid
        tok == SignJwt(uid, sameSecond)
        l == [loc[p] EXCEPT !.tok = tok] IN
    /\ pc[p] = "verify_token"
    /\ verified' = [verified EXCEPT ![uid] = TRUE]
    /\ lastIat' = [lastIat EXCEPT ![uid] = tok]
    /\ IF TokenStored(tok)
          THEN /\ UNCHANGED <<tokens, wins, minted>>
               /\ Finish(p, "verifyOtp", "AlreadyExists", l, 0)
          ELSE /\ tokens' = tokens \cup {NewRefreshToken(tok, uid, days)}
               /\ wins' = wins \cup {NextWin(loc[p].otp)}
               /\ minted' = minted \cup {tok}
               /\ Finish(p, "verifyOtp", "Success", l, 0)
    /\ UNCHANGED <<now, mask, event, accounts, active, otps, nextOtp, cleanup, issued, superseded,
                   revoked, swept>>

\* The successes of verifyOtp for the account so far.
WinsOf(uid) ==
    {w \in wins : \E i \in issued : i[1] = w[1] /\ i[2] = emailOf(uid)}

\* isNewUser: the call that has just succeeded is the account's first.
IsNewUser(p) == Cardinality(WinsOf(loc[p].sid)) = 1

WelcomeOutcomes == {"sent", "failed", "threw"}

\* Mutant: a welcome email that is not sent fails the call.
Welcome_Failing(p, outcome) ==
    /\ pc[p] = "done" /\ loc[p].op = "verifyOtp" /\ loc[p].status = "Success"
    /\ IsNewUser(p) /\ loc[p].mail = "none"
    /\ loc' = [loc EXCEPT ![p].mail = outcome,
                          ![p].status = IF outcome = "sent" THEN "Success"
                                        ELSE "ExternalServiceError"]
    /\ UNCHANGED <<now, mask, event, accounts, store, pc, cleanup, hist>>

\* sendWelcomeEmail(...).catch(() => {}) of the verifyOtp that creates the
\* account: the call is not awaited, the handler has its return value; the
\* promise settles later (true, false, or a rejection that the catch drops).
\* mail records how it settled.
Welcome(p, outcome) ==
    /\ pc[p] = "done" /\ loc[p].op = "verifyOtp" /\ loc[p].status = "Success"
    /\ IsNewUser(p) /\ loc[p].mail = "none"
    /\ loc' = [loc EXCEPT ![p].mail = outcome]
    /\ UNCHANGED <<now, mask, event, accounts, store, pc, cleanup, hist>>

-----------------------------------------------------------------------------
(* refreshAccessToken, logout, logoutAll *)

\* jwt.verify(token, refreshSecret): signature and the JWT's own exp claim
JwtValid(tok) == tok \in minted /\ now < tok.iat + jwtRefreshExpiryMinutes

\* Mutant: logout deletes every record of the token's user.
DeleteToken_ByUser(tok) == {t \in tokens : t.userId # tok.uid}

\* deleteMany({token})
DeleteToken(tok) == {t \in tokens : t.token # tok}

Refresh_Start(p, tok) ==
    LET l == [NoLoc EXCEPT !.op = "refreshAccessToken", !.tok = tok,
                           !.replay = tok \in revoked,
                           !.afterAll = tok \in swept] IN
    /\ Free(p)
    /\ IF ~JwtValid(tok)
          THEN Finish(p, "refreshAccessToken", "TokenInvalid", l, 0)
          ELSE Goto(p, "refresh_find", l)
    /\ UNCHANGED <<now, mask, event, accounts, store, cleanup, hist>>

\* Mutant: a token without a stored record is accepted.
Refresh_Find_NoLookup(p) ==
    /\ pc[p] = "refresh_find"
    /\ IF ~TokenStored(loc[p].tok)
          THEN Finish(p, "refreshAccessToken", "Success", loc[p], 0)
          ELSE LET t == CHOOSE t \in tokens : t.token = loc[p].tok IN
               IF t.expiresAt < now
                  THEN Goto(p, "refresh_delete", [loc[p] EXCEPT !.n = t.id])
                  ELSE IF ~active[t.userId]
                          THEN Finish(p, "refreshAccessToken", "Unauthorized", loc[p], 0)
                          ELSE Finish(p, "refreshAccessToken", "Success", loc[p], 0)
    /\ UNCHANGED <<now, mask, event, accounts, store, cleanup, hist>>

\* Mutant: a successful refresh consumes the record.
Refresh_Find_Rotating(p) ==
    /\ pc[p] = "refresh_find"
    /\ IF ~TokenStored(loc[p].tok)
          THEN Finish(p, "refreshAccessToken", "TokenInvalid", loc[p], 0)
          ELSE LET t == CHOOSE t \in tokens : t.token = loc[p].tok IN
               IF t.expiresAt < now
                  THEN Goto(p, "refresh_delete", [loc[p] EXCEPT !.n = t.id])
                  ELSE IF ~active[t.userId]
                          THEN Finish(p, "refreshAccessToken", "Unauthorized", loc[p], 0)
                          ELSE Finish(p, "refreshAccessToken", "Success", loc[p], 0)
    /\ tokens' = IF pc'[p] = "done" /\ loc'[p].status = "Success"
                     THEN DeleteToken(loc[p].tok) ELSE tokens
    /\ UNCHANGED <<now, mask, event, accounts, active, verified, otps, nextOtp, lastIat, cleanup, hist>>

\* Mutant: the account's isActive is not checked.
Refresh_Find_NoActiveCheck(p) ==
    /\ pc[p] = "refresh_find"
    /\ IF ~TokenStored(loc[p].tok)
          THEN Finish(p, "refreshAccessToken", "TokenInvalid", loc[p], 0)
          ELSE LET t == CHOOSE t \in tokens : t.token = loc[p].tok IN
               IF t.expiresAt < now
                  THEN Goto(p, "refresh_delete", [loc[p] EXCEPT !.n = t.id])
                  ELSE IF FALSE
                          THEN Finish(p, "refreshAccessToken", "Unauthorized", loc[p], 0)
                          ELSE Finish(p, "refreshAccessToken", "Success", loc[p], 0)
    /\ UNCHANGED <<now, mask, event, accounts, store, cleanup, hist>>

Refresh_Find(p) ==
    /\ pc[p] = "refresh_find"
    /\ IF ~TokenStored(loc[p].tok)
          THEN Finish(p, "refreshAccessToken", "TokenInvalid", loc[p], 0)
          ELSE LET t == CHOOSE t \in tokens : t.token = loc[p].tok IN
               IF t.expiresAt < now
                  THEN Goto(p, "refresh_delete", [loc[p] EXCEPT !.n = t.id])
                  ELSE IF ~active[t.userId]
                          THEN Finish(p, "refreshAccessToken", "Unauthorized", loc[p], 0)
                          ELSE Finish(p, "refreshAccessToken", "Success", loc[p], 0)
    /\ UNCHANGED <<now, mask, event, accounts, store, cleanup, hist>>

Refresh_Delete(p) ==
    /\ pc[p] = "refresh_delete"
    /\ IF \E t \in tokens : t.id = loc[p].n
          THEN /\ tokens' = {t \in tokens : t.id # loc[p].n}
               /\ Finish(p, "refreshAccessToken", "TokenExpired", loc[p], 0)
          ELSE /\ tokens' = tokens
               /\ Finish(p, "refreshAccessToken", "RecordNotFound", loc[p], 0)
    /\ UNCHANGED <<now, mask, event, accounts, active, verified, otps, nextOtp, lastIat, cleanup, hist>>

Logout(p, tok) ==
    /\ Free(p)
    /\ tokens' = DeleteToken(tok)
    /\ revoked' = revoked \cup {tok}
    /\ Finish(p, "logout", "Success", [NoLoc EXCEPT !.tok = tok], 0)
    /\ UNCHANGED <<now, mask, event, accounts, active, verified, otps, nextOtp, lastIat, cleanup,
                   issued, superseded, wins, minted, swept>>

\* deleteMany({userId})
DeleteUserTokens(uid) == {t \in tokens : t.userId # uid}

LogoutAll(p, uid) ==
    /\ Free(p)
    /\ tokens' = DeleteUserTokens(uid)
    /\ swept' = swept \cup {t.token : t \in {r \in tokens : r.userId = uid}}
    /\ Finish(p, "logoutAll", "Success", [NoLoc EXCEPT !.sid = uid], 0)
    /\ UNCHANGED <<now, mask, event, accounts, active, verified, otps, nextOtp, lastIat, cleanup,
                   issued, superseded, wins, minted, revoked>>

\* The token values a client can present: the ones it was given, and a forgery.
Presentable == minted \cup {Forged}

-----------------------------------------------------------------------------
(* cleanupExpiredTokens, run by setInterval every hour *)

CleanupDue == cleanup.runs = 0 \/ now >= cleanup.at + cleanupIntervalMinutes

\* Mutant: the comparison includes the instant of expiry.
ExpiredOtps_Inclusive(t) == {r \in otps : r.expiresAt <= t}

ExpiredOtps(t) == {r \in otps : r.expiresAt < t}
ExpiredTokens(t) == {r \in tokens : r.expiresAt < t}

Cleanup_Otps ==
    /\ cleanup.pc = "idle"
    /\ CleanupDue
    /\ otps' = otps \ ExpiredOtps(now)
    /\ cleanup' = [cleanup EXCEPT !.pc = "tokens", !.at = now, !.runs = 1]
    /\ UNCHANGED <<now, mask, event, accounts, active, verified, nextOtp, tokens, lastIat, pc, loc, hist>>

Cleanup_Tokens ==
    /\ cleanup.pc = "tokens"
    /\ tokens' = tokens \ ExpiredTokens(cleanup.at)
    /\ cleanup' = [cleanup EXCEPT !.pc = "idle"]
    /\ UNCHANGED <<now, mask, event, accounts, active, verified, otps, nextOtp, lastIat, pc, loc, hist>>

\* Mutant: a failed run ends the scheduler.
Cleanup_OtpsFail_Stopping(maxF) ==
    /\ cleanup.pc = "idle"
    /\ CleanupDue
    /\ cleanup.fails < maxF
    /\ cleanup' = [cleanup EXCEPT !.pc = "stopped", !.at = now, !.runs = 1,
                                  !.fails = cleanup.fails + 1]
    /\ UNCHANGED <<now, mask, event, accounts, store, pc, loc, hist>>

\* The first deleteMany throws: the run ends there, the catch of the interval
\* callback logs the error, the timer stays armed.
Cleanup_OtpsFail(maxF) ==
    /\ cleanup.pc = "idle"
    /\ CleanupDue
    /\ cleanup.fails < maxF
    /\ cleanup' = [cleanup EXCEPT !.at = now, !.runs = 1, !.fails = cleanup.fails + 1]
    /\ UNCHANGED <<now, mask, event, accounts, store, pc, loc, hist>>

\* The second deleteMany throws.
Cleanup_TokensFail(maxF) ==
    /\ cleanup.pc = "tokens"
    /\ cleanup.fails < maxF
    /\ cleanup' = [cleanup EXCEPT !.pc = "idle", !.fails = cleanup.fails + 1]
    /\ UNCHANGED <<now, mask, event, accounts, store, pc, loc, hist>>

-----------------------------------------------------------------------------
(* toggleUserActive on a student account, by one administrator request *)

ToggleUserActive(sid) ==
    /\ active' = [active EXCEPT ![sid] = ~active[sid]]
    /\ UNCHANGED <<now, mask, event, accounts, verified, otps, nextOtp, tokens, lastIat, pc, loc,
                   cleanup, hist>>

-----------------------------------------------------------------------------
(* authenticate: the check of the access token of a request.  verifyOtp signs
   the access token together with the refresh token, from the same payload in
   the same second, with the access secret and the access expiry: a token
   value [uid, iat, n] presented here stands for that access token. *)

AccessSigned(a) == a \in minted
AccessExpired(a) == now >= a.iat + accessExpiryMinutes

\* jwt.verify, then the user row is read: the token is accepted when the
\* account is active (account rows are never deleted here).
AuthResult(a, isActive) ==
    IF ~AccessSigned(a) THEN "TokenInvalid"
    ELSE IF AccessExpired(a) THEN "TokenExpired"
    ELSE IF ~isActive[a.uid] THEN "Unauthorized"
    ELSE "Success"

Authenticate(p, a) ==
    /\ Free(p)
    /\ Finish(p, "authenticate", AuthResult(a, active),
              [NoLoc EXCEPT !.tok = a], 0)
    /\ UNCHANGED <<now, mask, event, accounts, store, cleanup, hist>>

-----------------------------------------------------------------------------
(* Masked emails.  A string is a sequence of characters. *)

LocalChars == {"a", "b"}
Domain == <<"x">>
Emails ==
    {l \o <<"@">> \o Domain :
        l \in UNION {[1..n -> LocalChars] : n \in 1..MaxLocal}}

Stars(n) == [i \in 1..n |-> "*"]

\* s.slice(0, n) and s.slice(-n)
SliceStart(s, n) == SubSeq(s, 1, IF n < Len(s) THEN n ELSE Len(s))
SliceEnd(s, n) == SubSeq(s, IF Len(s) - n + 1 > 1 THEN Len(s) - n + 1 ELSE 1, Len(s))

\* The positions of "@" in s.
Ats(s) == {i \in 1..Len(s) : s[i] = "@"}
FirstAt(s) == CHOOSE i \in Ats(s) : \A j \in Ats(s) : i <= j

\* const [localPart, domain] = email.split("@") for an address with one "@"
LocalPart(email) == SubSeq(email, 1, FirstAt(email) - 1)
DomainPart(email) == SubSeq(email, FirstAt(email) + 1, Len(email))

maskEmail(email) ==
    LET localPart == LocalPart(email)
        domain == DomainPart(email) IN
    IF Len(localPart) <= 4
       THEN <<localPart[1]>> \o Stars(3) \o <<"@">> \o domain
       ELSE SliceStart(localPart, 3) \o Stars(4) \o SliceEnd(localPart, 2)
               \o <<"@">> \o domain

\* email.replace(/^(.{3}).*(@.*)$/, "$1****$2"): three characters, then as
\* many as possible, then the rest from an "@" on; a string that does not
\* match is returned as it is.
ReplaceMask(email) ==
    LET after == {i \in Ats(email) : i > 3} IN
    IF after = {} THEN email
    ELSE LET k == CHOOSE i \in after : \A j \in after : j <= i IN
         SubSeq(email, 1, 3) \o Stars(4) \o SubSeq(email, k, Len(email))

\* The return statement of sendOtp and of resendOtp.
SendOtp_Reply ==
    /\ mask.email # <<>> /\ mask.op = "-"
    /\ mask' = [mask EXCEPT !.op = "sendOtp", !.reply = ReplaceMask(mask.email)]
    /\ UNCHANGED <<now, event, accounts, store, pc, loc, cleanup, hist>>

ResendOtp_Reply ==
    /\ mask.email # <<>> /\ mask.op = "-"
    /\ mask' = [mask EXCEPT !.op = "resendOtp", !.reply = ReplaceMask(mask.email)]
    /\ UNCHANGED <<now, event, accounts, store, pc, loc, cleanup, hist>>

-----------------------------------------------------------------------------
(* registerForEvent and cancelRegistration of one event.  Each await is a
   step: the event row is read, then the user's registration row, then the
   transaction with the two writes runs. *)

Registered(u, cur) ==
    [event EXCEPT !.registrations[u] = "REGISTERED", !.capacityCurrent = cur]

RegisterForEvent_Start(p, u) ==
    LET l == [NoLoc EXCEPT !.op = "registerForEvent", !.sid = u,
                           !.n = event.capacityCurrent] IN
    /\ Free(p)
    /\ IF event.capacityCurrent >= event.capacityMax
          THEN Finish(p, "registerForEvent", "EventFull", l, 0)
          ELSE Goto(p, "register_find", l)
    /\ UNCHANGED <<now, mask, event, accounts, store, cleanup, hist>>

RegisterForEvent_Find(p) ==
    LET existing == event.registrations[loc[p].sid] IN
    /\ pc[p] = "register_find"
    /\ IF existing = "REGISTERED"
          THEN Finish(p, "registerForEvent", "AlreadyRegistered", loc[p], 0)
          ELSE IF existing = "CANCELLED"
                  THEN Goto(p, "register_update", loc[p])
                  ELSE Goto(p, "register_create", loc[p])
    /\ UNCHANGED <<now, mask, event, accounts, store, cleanup, hist>>

\* $transaction([eventRegistration.create or update, event.update increment]):
\* the create fails on the unique key (eventId, userId) and rolls back.
RegisterForEvent_Write(p) ==
    LET u == loc[p].sid IN
    /\ pc[p] \in {"register_create", "register_update"}
    /\ IF pc[p] = "register_create" /\ event.registrations[u] # "NONE"
          THEN /\ event' = event
               /\ Finish(p, "registerForEvent", "AlreadyExists", loc[p], 0)
          ELSE /\ event' = Registered(u, event.capacityCurrent + 1)
               /\ Finish(p, "registerForEvent", "Success", loc[p], 0)
    /\ UNCHANGED <<now, mask, accounts, store, cleanup, hist>>

CancelRegistration_Start(p, u) ==
    LET l == [NoLoc EXCEPT !.op = "cancelRegistration", !.sid = u] IN
    /\ Free(p)
    /\ IF event.registrations[u] # "REGISTERED"
          THEN Finish(p, "cancelRegistration", "NotFound", l, 0)
          ELSE Goto(p, "cancel_write", l)
    /\ UNCHANGED <<now, mask, event, accounts, store, cleanup, hist>>

CancelRegistration_Write(p) ==
    /\ pc[p] = "cancel_write"
    /\ event' = [event EXCEPT !.registrations[loc[p].sid] = "CANCELLED",
                              !.capacityCurrent = event.capacityCurrent - 1]
    /\ Finish(p, "cancelRegistration", "Success", loc[p], 0)
    /\ UNCHANGED <<now, mask, accounts, store, cleanup, hist>>

-----------------------------------------------------------------------------
(* changeUserRole, toggleUserActive and deleteUser by an administrator on the
   user rows of the administrators.  Each await is a step: the row is read,
   the administrators are counted, the row is written. *)

Admins == {"a1", "a2"}
Roles == {"ADMIN", "STUDENT"}

\* authenticate and authorize("ADMIN") have let the request through.
IsAdmin(a) == accounts[a].exists /\ accounts[a].role = "ADMIN" /\ accounts[a].isActive

\* prisma.user.count({where: {role: "ADMIN"}})
AdminCount == Cardinality({a \in Admins : accounts[a].exists /\ accounts[a].role = "ADMIN"})

\* prisma.user.count({where: {role: "ADMIN", isActive: true}})
ActiveAdminCount ==
    Cardinality({a \in Admins : /\ accounts[a].exists /\ accounts[a].role = "ADMIN"
                                /\ accounts[a].isActive})

\* The checks before the count: not on oneself, the user exists.
AdminStart(p, op, admin, id, l, counted, count, write) ==
    /\ Free(p) /\ IsAdmin(admin)
    /\ IF id = admin THEN Finish(p, op, "BadRequest", l, 0)
       ELSE IF ~accounts[id].exists THEN Finish(p, op, "NotFound", l, 0)
       ELSE IF counted THEN Goto(p, count, l)
       ELSE Goto(p, write, l)
    /\ UNCHANGED <<now, mask, event, accounts, store, cleanup, hist>>

\* The count and its test.
AdminCheck(p, op, count, n, write) ==
    /\ pc[p] = count
    /\ IF n <= 1 THEN Finish(p, op, "BadRequest", loc[p], 0)
                 ELSE Goto(p, write, loc[p])
    /\ UNCHANGED <<now, mask, event, accounts, store, cleanup, hist>>

\* prisma.user.update / delete by id: P2025 when the row is gone.
AdminWrite(p, op, write, row) ==
    /\ pc[p] = write
    /\ IF accounts[loc[p].sid].exists
          THEN /\ accounts' = [accounts EXCEPT ![loc[p].sid] = row]
               /\ Finish(p, op, "Success", loc[p], 0)
          ELSE /\ accounts' = accounts
               /\ Finish(p, op, "RecordNotFound", loc[p], 0)
    /\ UNCHANGED <<now, mask, event, store, cleanup, hist>>

ChangeUserRole_Start(p, admin, id, role) ==
    /\ id \in Admins /\ admin \in Admins
    /\ AdminStart(p, "changeUserRole", admin, id,
                  [NoLoc EXCEPT !.op = "changeUserRole", !.sid = id, !.role = role],
                  accounts[id].role = "ADMIN" /\ role # "ADMIN",
                  "role_count", "role_write")

ChangeUserRole_Count(p) ==
    /\ loc[p].op = "changeUserRole"
    /\ AdminCheck(p, "changeUserRole", "role_count", AdminCount, "role_write")

ChangeUserRole_Write(p) ==
    /\ loc[p].op = "changeUserRole"
    /\ AdminWrite(p, "changeUserRole", "role_write",
                  [accounts[loc[p].sid] EXCEPT !.role = loc[p].role])

ToggleUserActive_Start(p, admin, id) ==
    /\ id \in Admins /\ admin \in Admins
    /\ AdminStart(p, "toggleUserActive", admin, id,
                  [NoLoc EXCEPT !.op = "toggleUserActive", !.sid = id,
                                !.was = accounts[id].isActive],
                  accounts[id].role = "ADMIN" /\ accounts[id].isActive,
                  "toggle_count", "toggle_write")

ToggleUserActive_Count(p) ==
    /\ loc[p].op = "toggleUserActive"
    /\ AdminCheck(p, "toggleUserActive", "toggle_count", ActiveAdminCount, "toggle_write")

ToggleUserActive_Write(p) ==
    /\ loc[p].op = "toggleUserActive"
    /\ AdminWrite(p, "toggleUserActive", "toggle_write",
                  [accounts[loc[p].sid] EXCEPT !.isActive = ~loc[p].was])

DeleteUser_Start(p, admin, id) ==
    /\ id \in Admins /\ admin \in Admins
    /\ AdminStart(p, "deleteUser", admin, id,
                  [NoLoc EXCEPT !.op = "deleteUser", !.sid = id],
                  accounts[id].role = "ADMIN",
                  "delete_count", "delete_write")

DeleteUser_Count(p) ==
    /\ loc[p].op = "deleteUser"
    /\ AdminCheck(p, "deleteUser", "delete_count", AdminCount, "delete_write")

DeleteUser_Write(p) ==
    /\ loc[p].op = "deleteUser"
    /\ AdminWrite(p, "deleteUser", "delete_write",
                  [accounts[loc[p].sid] EXCEPT !.exists = FALSE])

-----------------------------------------------------------------------------
(* The clock *)

Tick(maxT) ==
    /\ now < maxT
    /\ now' = now + 1
    /\ UNCHANGED <<mask, event, accounts, store, pc, loc, cleanup, hist>>

\* A long quiet period: the clock moves to half an hour before, or half an
\* hour after, the expiry of the refresh JWTs signed at its start.
SleepMinutes ==
    {jwtRefreshExpiryMinutes - (dstShiftMinutes \div 2),
     jwtRefreshExpiryMinutes + (dstShiftMinutes \div 2)}

Sleep(maxT, d) ==
    /\ now <= maxT
    /\ now' = now + d
    /\ UNCHANGED <<mask, event, accounts, store, pc, loc, cleanup, hist>>

\* A record whose expiry has passed is still stored.
ExpiredStored == ExpiredOtps(now) # {} \/ ExpiredTokens(now) # {}

\* An hour passes: up to the last hour explored, and beyond it for as long as
\* an expired record is still stored, the run of the job that was due in the
\* hour before having taken place.
Hour(maxT) ==
    /\ \/ now < maxT * cleanupIntervalMinutes
       \/ ExpiredStored /\ cleanup.pc = "idle" /\ ~CleanupDue
    /\ now' = now + cleanupIntervalMinutes
    /\ UNCHANGED <<mask, event, accounts, store, pc, loc, cleanup, hist>>

-----------------------------------------------------------------------------
InitStore ==
    /\ now = 0
    /\ active = [s \in Users |-> TRUE]
    /\ verified = [s \in Users |-> FALSE]
    /\ otps = {}
    /\ nextOtp = 1
    /\ tokens = {}
    /\ lastIat = [s \in Users |-> NoTok]
    /\ pc = [p \in Procs |-> "idle"]
    /\ loc = [p \in Procs |-> NoLoc]
    /\ cleanup = [pc |-> "idle", at |-> 0, runs |-> 0, fails |-> 0]
    /\ issued = {}
    /\ superseded = {}
    /\ wins = {}
    /\ minted = {}
    /\ revoked = {}
    /\ swept = {}

\* An event as it is created, and the registrations of the users: none.
NewEvent(max) ==
    [capacityMax |-> max, capacityCurrent |-> 0,
     registrations |-> [u \in Users |-> "NONE"]]

InitAccounts == [a \in Admins |-> [exists |-> TRUE, role |-> "ADMIN", isActive |-> TRUE]]

Init ==
    InitStore /\ mask = NoMask /\ event = NewEvent(1) /\ accounts = InitAccounts

(* The OTP life cycle of one account under concurrent requests: slot 1 runs
   any handler, the other slots run verifyOtp. *)
OtpIds == {"s1"}
MayIssue == nextOtp <= MaxOtps

Next ==
    \/ \E sid \in OtpIds : MayIssue /\ SendOtp_Start(1, sid)
    \/ SendOtp_Count(1)
    \/ \E c \in Codes : SendOtp_Create(1, c)
    \/ \E ok \in BOOLEAN : SendOtp_Email(1, ok)
    \/ \E sid \in OtpIds : MayIssue /\ ResendOtp_Start(1, sid)
    \/ ResendOtp_Count(1)
    \/ ResendOtp_Invalidate(1)
    \/ \E c \in Codes : ResendOtp_Create(1, c)
    \/ \E ok \in BOOLEAN : ResendOtp_Email(1, ok)
    \/ \E p \in Procs, sid \in OtpIds, c \in Codes : VerifyOtp_Start(p, sid, c)
    \/ \E p \in Procs : VerifyOtp_Find(p)
    \/ \E p \in Procs : VerifyOtp_Increment(p)
    \/ \E p \in Procs : VerifyOtp_Mark(p)
    \/ \E p \in Procs : VerifyOtp_Token(p, FALSE, refreshExpiryMinutes)
    \/ \E p \in Procs : Respond(p)
    \/ Tick(MaxTime)

Spec == Init /\ [][Next]_vars

(* Issuance for one email, one call at a time (slot 1), with the cleanup job
   and an administrator toggling the account; the clock runs past the window. *)
IssueIds == {"s1", "s0"}

NextSerial ==
    \/ \E sid \in IssueIds : SendOtp_Start(1, sid)
    \/ SendOtp_Count(1)
    \/ SendOtp_Create(1, 1)
    \/ \E ok \in BOOLEAN : SendOtp_Email(1, ok)
    \/ \E sid \in IssueIds : ResendOtp_Start(1, sid)
    \/ ResendOtp_Count(1)
    \/ ResendOtp_Invalidate(1)
    \/ ResendOtp_Create(1, 1)
    \/ \E ok \in BOOLEAN : ResendOtp_Email(1, ok)
    \/ Respond(1)
    \/ Cleanup_Otps
    \/ Cleanup_Tokens
    \/ ToggleUserActive("s1")
    \/ Tick(MaxTimeRate)

SpecSerial == Init /\ [][NextSerial]_vars

(* Issuance for one email by concurrent requests. *)
NextIssue ==
    \/ \E p \in Procs : SendOtp_Start(p, "s1")
    \/ \E p \in Procs : SendOtp_Count(p)
    \/ \E p \in Procs : SendOtp_Create(p, 1)
    \/ \E p \in Procs : SendOtp_Email(p, TRUE)
    \/ \E p \in Procs : ResendOtp_Start(p, "s1")
    \/ \E p \in Procs : ResendOtp_Count(p)
    \/ \E p \in Procs : ResendOtp_Invalidate(p)
    \/ \E p \in Procs : ResendOtp_Create(p, 1)
    \/ \E p \in Procs : ResendOtp_Email(p, TRUE)
    \/ \E p \in Procs : Respond(p)
    \/ Tick(MaxTime)

SpecIssue == Init /\ [][NextIssue]_vars

(* Sessions of one account: verifyOtp in both slots, logout in slot 1 and
   refreshAccessToken in slot 2, over a clock that reaches the token expiry. *)
NextSession ==
    \/ Cardinality(issued) < MaxSignIns /\ SendOtp_Start(1, "s1")
    \/ SendOtp_Count(1)
    \/ SendOtp_Create(1, 1)
    \/ SendOtp_Email(1, TRUE)
    \/ \E p \in Procs, c \in Codes : VerifyOtp_Start(p, "s1", c)
    \/ \E p \in Procs : VerifyOtp_Find(p)
    \/ \E p \in Procs : VerifyOtp_Increment(p)
    \/ \E p \in Procs : VerifyOtp_Mark(p)
    \/ \E p \in Procs, sameSecond \in BOOLEAN, days \in CalendarDays30 :
          VerifyOtp_Token(p, sameSecond, days)
    \/ \E tok \in Presentable : Refresh_Start(2, tok)
    \/ Refresh_Find(2)
    \/ Refresh_Delete(2)
    \/ \E tok \in Presentable : Logout(1, tok)
    \/ LogoutAll(1, "s1")
    \/ \E p \in Procs : Respond(p)
    \/ Tick(MaxTime)
    \/ \E d \in SleepMinutes : Sleep(MaxTime, d)

SpecSession == Init /\ [][NextSession]_vars

(* The life of the OTP rows of one email, one request at a time: issuance,
   verification with right and wrong codes, the cleanup job, and a clock that
   passes the expiry. *)
NextLife ==
    \/ MayIssue /\ SendOtp_Start(1, "s1")
    \/ SendOtp_Count(1)
    \/ \E c \in Codes : SendOtp_Create(1, c)
    \/ \E ok \in BOOLEAN : SendOtp_Email(1, ok)
    \/ MayIssue /\ ResendOtp_Start(1, "s1")
    \/ ResendOtp_Count(1)
    \/ ResendOtp_Invalidate(1)
    \/ \E c \in Codes : ResendOtp_Create(1, c)
    \/ \E ok \in BOOLEAN : ResendOtp_Email(1, ok)
    \/ \E c \in Codes : VerifyOtp_Start(1, "s1", c)
    \/ VerifyOtp_Find(1)
    \/ VerifyOtp_Increment(1)
    \/ VerifyOtp_Mark(1)
    \/ VerifyOtp_Token(1, FALSE, refreshExpiryMinutes)
    \/ Respond(1)
    \/ Cleanup_Otps
    \/ Cleanup_Tokens
    \/ Tick(MaxTimeLife)

SpecLife == Init /\ [][NextLife]_vars

(* The cleanup job beside the sign-ins of one account, one request at a time,
   over a clock that reaches the expiry of the refresh tokens. *)
NextCleanup ==
    \/ MayIssue /\ SendOtp_Start(1, "s1")
    \/ SendOtp_Count(1)
    \/ SendOtp_Create(1, 1)
    \/ SendOtp_Email(1, TRUE)
    \/ \E c \in Codes : VerifyOtp_Start(1, "s1", c)
    \/ VerifyOtp_Find(1)
    \/ VerifyOtp_Increment(1)
    \/ VerifyOtp_Mark(1)
    \/ \E days \in CalendarDays30 : VerifyOtp_Token(1, FALSE, days)
    \/ Respond(1)
    \/ Cleanup_Otps
    \/ Cleanup_Tokens
    \/ Tick(MaxTime)
    \/ \E d \in SleepMinutes : Sleep(MaxTime, d)

SpecCleanup == Init /\ [][NextCleanup]_vars

(* The cleanup job with store failures: sign-ins of one account one at a time
   (every OTP has code 1 and verifyOtp submits it), runs of the job that may
   fail in either delete, up to MaxFails times in all, and a clock of hours. *)
NextSweep ==
    \/ MayIssue /\ SendOtp_Start(1, "s1")
    \/ SendOtp_Count(1)
    \/ SendOtp_Create(1, 1)
    \/ SendOtp_Email(1, TRUE)
    \/ VerifyOtp_Start(1, "s1", 1)
    \/ VerifyOtp_Find(1)
    \/ VerifyOtp_Mark(1)
    \/ \E days \in CalendarDays30 : VerifyOtp_Token(1, FALSE, days)
    \/ Respond(1)
    \/ Cleanup_Otps
    \/ Cleanup_Tokens
    \/ Cleanup_OtpsFail(MaxFails)
    \/ Cleanup_TokensFail(MaxFails)
    \/ Hour(MaxTime)
    \/ \E d \in SleepMinutes : Sleep(MaxTime, d)

\* The interval timer fires when due and a started run goes on; the clock
\* advances.
CleanupRuns ==
    \/ Cleanup_Otps
    \/ Cleanup_Tokens
    \/ Cleanup_OtpsFail(MaxFails)
    \/ Cleanup_TokensFail(MaxFails)

SpecSweep ==
    Init /\ [][NextSweep]_vars /\ WF_vars(CleanupRuns) /\ WF_vars(Hour(MaxTime))

(* Requests with an access token: sign-ins of one account one at a time
   (every OTP has code 1 and verifyOtp submits it), the access token of a
   sign-in or a forged one presented in slot 2, logoutAll, the account
   deactivated and reactivated, and a clock of hours. *)
NextAccess ==
    \/ MayIssue /\ SendOtp_Start(1, "s1")
    \/ SendOtp_Count(1)
    \/ SendOtp_Create(1, 1)
    \/ SendOtp_Email(1, TRUE)
    \/ VerifyOtp_Start(1, "s1", 1)
    \/ VerifyOtp_Find(1)
    \/ VerifyOtp_Mark(1)
    \/ VerifyOtp_Token(1, FALSE, refreshExpiryMinutes)
    \/ LogoutAll(1, "s1")
    \/ \E a \in Presentable : Authenticate(2, a)
    \/ \E p \in Procs : Respond(p)
    \/ ToggleUserActive("s1")
    \/ Hour(MaxTime)

SpecAccess == Init /\ [][NextAccess]_vars

(* The masked email of the responses: an account with any email address of
   Emails, and the response of sendOtp or resendOtp for it. *)
InitMask ==
    /\ InitStore /\ event = NewEvent(1) /\ accounts = InitAccounts
    /\ mask \in {[NoMask EXCEPT !.email = e] : e \in Emails}

NextMask == SendOtp_Reply \/ ResendOtp_Reply

SpecMask == InitMask /\ [][NextMask]_vars

(* First sign-ins with the welcome email: requests of one account one at a
   time, right and wrong codes, and the welcome email of the first success. *)
NextWelcome ==
    \/ MayIssue /\ SendOtp_Start(1, "s1")
    \/ SendOtp_Count(1)
    \/ \E c \in Codes : SendOtp_Create(1, c)
    \/ \E ok \in BOOLEAN : SendOtp_Email(1, ok)
    \/ \E c \in Codes : VerifyOtp_Start(1, "s1", c)
    \/ VerifyOtp_Find(1)
    \/ VerifyOtp_Increment(1)
    \/ VerifyOtp_Mark(1)
    \/ VerifyOtp_Token(1, FALSE, refreshExpiryMinutes)
    \/ \E outcome \in WelcomeOutcomes : Welcome(1, outcome)
    \/ Respond(1)
    \/ Tick(MaxTime)

SpecWelcome == Init /\ [][NextWelcome]_vars

(* Registrations for one event: the user of slot 1 is s1, the user of slot 2
   is s2, each registering and cancelling, both in flight together. *)
UserOf(p) == IF p = 1 THEN "s1" ELSE "s2"

InitEvents ==
    /\ InitStore /\ mask = NoMask /\ accounts = InitAccounts
    /\ event \in {NewEvent(max) : max \in 1..MaxCapacity}

NextEvents ==
    \/ \E p \in Procs : RegisterForEvent_Start(p, UserOf(p))
    \/ \E p \in Procs : RegisterForEvent_Find(p)
    \/ \E p \in Procs : RegisterForEvent_Write(p)
    \/ \E p \in Procs : CancelRegistration_Start(p, UserOf(p))
    \/ \E p \in Procs : CancelRegistration_Write(p)
    \/ \E p \in Procs : Respond(p)

SpecEvents == InitEvents /\ [][NextEvents]_vars

(* Administration: the administrator of slot 1 is a1, of slot 2 a2; each
   changes roles, toggles and deletes, both in flight together. *)
AdminOf(p) == IF p = 1 THEN "a1" ELSE "a2"

NextAdmins ==
    \/ \E p \in Procs, id \in Admins, role \in Roles :
          ChangeUserRole_Start(p, AdminOf(p), id, role)
    \/ \E p \in Procs : ChangeUserRole_Count(p)
    \/ \E p \in Procs : ChangeUserRole_Write(p)
    \/ \E p \in Procs, id \in Admins : ToggleUserActive_Start(p, AdminOf(p), id)
    \/ \E p \in Procs : ToggleUserActive_Count(p)
    \/ \E p \in Procs : ToggleUserActive_Write(p)
    \/ \E p \in Procs, id \in Admins : DeleteUser_Start(p, AdminOf(p), id)
    \/ \E p \in Procs : DeleteUser_Count(p)
    \/ \E p \in Procs : DeleteUser_Write(p)
    \/ \E p \in Procs : Respond(p)

SpecAdmins == Init /\ [][NextAdmins]_vars

(* Stored refresh tokens of two accounts: sign-in, logout and logoutAll one at
   a time in slot 1, refreshAccessToken in slot 2, an administrator toggling
   an account, and a clock that jumps to the expiry.  Every OTP has code 1 and
   verifyOtp submits it, so the wrong-code step of verifyOtp is never entered. *)
NextTokens ==
    \/ \E sid \in Users : Cardinality(issued) < MaxTokens /\ SendOtp_Start(1, sid)
    \/ SendOtp_Count(1)
    \/ SendOtp_Create(1, 1)
    \/ SendOtp_Email(1, TRUE)
    \/ \E sid \in Users : VerifyOtp_Start(1, sid, 1)
    \/ VerifyOtp_Find(1)
    \/ VerifyOtp_Mark(1)
    \/ \E sameSecond \in BOOLEAN, days \in CalendarDays30 :
          VerifyOtp_Token(1, sameSecond, days)
    \/ \E tok \in Presentable : Refresh_Start(2, tok)
    \/ Refresh_Find(2)
    \/ Refresh_Delete(2)
    \/ \E tok \in Presentable : Logout(1, tok)
    \/ \E uid \in Users : LogoutAll(1, uid)
    \/ \E p \in Procs : Respond(p)
    \/ ToggleUserActive("s1")
    \/ \E d \in SleepMinutes : Sleep(0, d)

SpecTokens == Init /\ [][NextTokens]_vars

-----------------------------------------------------------------------------
(* Claims *)

\* The step in which slot p's verifyOtp reads the store (findFirst).
FindStep(p) == pc[p] = "verify_find" /\ pc'[p] # "verify_find"

Fails(p, status) == pc'[p] = "done" /\ loc'[p].status = status

\* C1 as stated: a verifyOtp call started after a success on a row, submitting
\* that row's code while no OTP has been issued since, fails with OtpExpired
\* whatever other rows of the email exist.
C1_Original ==
    [][\A p \in Procs :
         (FindStep(p) /\ loc[p].replay /\ WonRows(emailOf(loc[p].sid), loc[p].code) # {})
            => Fails(p, "OtpExpired")]_vars

\* C1 amended: such a call never selects the row that was verified, and it fails
\* with OtpExpired when the email has no other unused, unexpired row.
C1_Amended ==
    [][\A p \in Procs :
         (FindStep(p) /\ loc[p].replay /\ WonRows(emailOf(loc[p].sid), loc[p].code) # {})
            => /\ \A r \in WonRows(emailOf(loc[p].sid), loc[p].code) : loc'[p].otp # r.id
               /\ (Selectable(emailOf(loc[p].sid))
                     \subseteq WonRows(emailOf(loc[p].sid), loc[p].code))
                    => Fails(p, "OtpExpired")]_vars

C1_Witness ==
    \E p \in Procs :
        /\ Done(p, "verifyOtp", "OtpExpired")
        /\ WonRows(emailOf(loc[p].sid), loc[p].code) # {}
        /\ \A q \in Procs : pc[q] \in {"idle", "done"}

\* C2: one OTP row yields at most one successful verifyOtp (one token pair, one
\* refresh-token row), under any interleaving.
C2_Original ==
    /\ \A w \in wins : w[2] = 1
    /\ \A p, q \in Procs :
          (p # q /\ Done(p, "verifyOtp", "Success") /\ Done(q, "verifyOtp", "Success"))
             => loc[p].otp # loc[q].otp

\* C3: every wrong submission adds one attempt to the selected row, and once a
\* row has maxAttempts attempts every verifyOtp that selects it fails with
\* OtpMaxAttempts, whatever code it carries, and changes nothing.
C3_MaxAttemptsEnforced ==
    [][\A p \in Procs :
         /\ (FindStep(p) /\ Selectable(emailOf(loc[p].sid)) # {}
               /\ Newest(Selectable(emailOf(loc[p].sid))).attempts >= maxAttempts)
              => (Fails(p, "OtpMaxAttempts") /\ otps' = otps /\ tokens' = tokens)
         /\ (pc[p] = "verify_increment" /\ pc'[p] = "done" /\ RowExists(loc[p].otp))
              => \A r \in otps : r.id = loc[p].otp
                    => [r EXCEPT !.attempts = r.attempts + 1] \in otps']_vars

C3_Witness ==
    \E p \in Procs, r \in otps :
        /\ Done(p, "verifyOtp", "OtpMaxAttempts")
        /\ loc[p].otp = r.id
        /\ BcryptCompare(loc[p].code, r.otpCode)
        /\ r.attempts = maxAttempts /\ ~r.isUsed /\ r.expiresAt >= now

\* C4: the attempts counter of every OTP row is at most maxAttempts.
C4_Original == \A r \in otps : r.attempts <= maxAttempts

CountStep(p) == pc[p] \in {"send_count", "resend_count"} /\ pc'[p] # pc[p]

\* History: the rows stored for the email inside the window that ends now.
IssuedInWindow(email) ==
    {i \in issued : i[2] = email /\ i[3] >= now - rateLimitWindowMinutes}

\* C6 as stated: once rateLimitMaxRequests issuance calls have stored a row
\* inside the window, the next sendOtp or resendOtp in that window fails with
\* RateLimited and stores nothing; with no row stored inside the window the
\* call is admitted.
C6_Original ==
    [][\A p \in Procs :
         CountStep(p) =>
            /\ (Cardinality(IssuedInWindow(emailOf(loc[p].sid))) >= rateLimitMaxRequests)
                  => (Fails(p, "RateLimited") /\ otps' = otps)
            /\ (IssuedInWindow(emailOf(loc[p].sid)) = {}) => pc'[p] # "done"]_vars

\* C7: with issuance calls one at a time, the stored rows of an email created
\* inside the current window never number more than rateLimitMaxRequests.
C7_WindowCountBounded ==
    \A u \in Users : RecentCount(emailOf(u)) <= rateLimitMaxRequests

C7_Witness ==
    /\ Done(1, "sendOtp", "RateLimited")
    /\ RecentCount("e1") = rateLimitMaxRequests
    /\ Cardinality({i \in issued : i[2] = "e1"}) > rateLimitMaxRequests

\* C8: concurrent issuance calls each read a count below the threshold and each
\* insert, so the window holds more than rateLimitMaxRequests rows; the excess
\* is less than the number of calls in flight.
C8_ExcessFromStaleCounts ==
    /\ \A i \in issued : i[4] < rateLimitMaxRequests
    /\ \A u \in Users :
          RecentCount(emailOf(u)) <= rateLimitMaxRequests + Cardinality(Procs) - 1

C8_Witness ==
    /\ RecentCount("e1") > rateLimitMaxRequests
    /\ \A p \in Procs : Done(p, "sendOtp", "Success")
    /\ \E i, j \in issued :
          /\ i[1] = loc[1].otp /\ j[1] = loc[2].otp /\ i # j
          /\ i[4] = rateLimitMaxRequests - 1 /\ j[4] = rateLimitMaxRequests - 1

\* The step in which slot p's sendOtp or resendOtp reads the account.
IssueStart(p) ==
    pc[p] = "idle" /\ pc'[p] # "idle" /\ loc'[p].op \in {"sendOtp", "resendOtp"}

\* C9: sendOtp and resendOtp for an inactive account fail with AccountInactive,
\* store and change no OTP row and send no email, whatever rows exist.
C9_InactiveRejected ==
    [][\A p \in Procs :
         (IssueStart(p) /\ loc'[p].sid \in Users /\ ~active[loc'[p].sid])
            => /\ Fails(p, "AccountInactive")
               /\ loc'[p].mail = "none" /\ loc'[p].otp = 0
               /\ otps' = otps /\ issued' = issued]_vars

C9_Witness ==
    /\ Done(1, "sendOtp", "AccountInactive")
    /\ ~active["s1"]
    /\ RateLimitHit("e1")

\* C10 as stated: a refreshAccessToken call started after logout was given the
\* token never succeeds.
C10_Original ==
    \A p \in Procs :
       ~(Done(p, "refreshAccessToken", "Success") /\ loc[p].replay)

\* The step in which slot p's refreshAccessToken verifies the JWT.
RefreshStart(p) ==
    pc[p] = "idle" /\ pc'[p] # "idle" /\ loc'[p].op = "refreshAccessToken"

\* The step in which slot p's refreshAccessToken looks the token up.
LookupStep(p) == pc[p] = "refresh_find" /\ pc'[p] # "refresh_find"

StoredExpired(tok) == \E t \in tokens : t.token = tok /\ t.expiresAt < now

\* C11 as stated: refreshAccessToken of a token whose record is stored with
\* expiresAt < now reaches the lookup, deletes the record and fails with
\* TokenExpired; a call that finds no record fails with TokenInvalid.
C11_Original ==
    [][\A p \in Procs :
         /\ (RefreshStart(p) /\ StoredExpired(loc'[p].tok)) => pc'[p] = "refresh_find"
         /\ (LookupStep(p) /\ StoredExpired(loc[p].tok)) => pc'[p] = "refresh_delete"
         /\ (pc[p] = "refresh_delete" /\ pc'[p] # "refresh_delete")
               => (Fails(p, "TokenExpired") /\ ~TokenStored(loc[p].tok)')
         /\ (LookupStep(p) /\ ~TokenStored(loc[p].tok)) => Fails(p, "TokenInvalid")]_vars

\* The step in which slot p's refreshAccessToken returns an access token.
RefreshSucceeds(p) ==
    /\ pc[p] # "done" /\ pc'[p] = "done"
    /\ loc'[p].op = "refreshAccessToken" /\ loc'[p].status = "Success"

\* A record with this token value is stored, unexpired, and its account active.
Usable(tok) ==
    \E t \in tokens : t.token = tok /\ t.expiresAt >= now /\ active[t.userId]

\* C12: refreshAccessToken returns an access token only in its lookup step and
\* only if a record with the submitted token value is then stored, unexpired
\* and of an active account; a lookup that finds no record fails TokenInvalid.
C12_WhitelistEnforced ==
    [][\A p \in Procs :
         /\ RefreshSucceeds(p) => (LookupStep(p) /\ Usable(loc[p].tok))
         /\ (LookupStep(p) /\ ~TokenStored(loc[p].tok)) => Fails(p, "TokenInvalid")]_vars

C12_Witness ==
    /\ Done(2, "refreshAccessToken", "TokenInvalid")
    /\ JwtValid(loc[2].tok)
    /\ ~TokenStored(loc[2].tok)

\* C13: a successful refreshAccessToken leaves the refresh-token table as it
\* was, and a lookup succeeds whenever the record is stored, unexpired and of an
\* active account, however often the token was used before.
C13_RefreshKeepsStore ==
    [][\A p \in Procs :
         /\ RefreshSucceeds(p) => tokens' = tokens
         /\ (LookupStep(p) /\ Usable(loc[p].tok)) => RefreshSucceeds(p)]_vars

C13_Witness ==
    /\ Done(2, "refreshAccessToken", "Success")
    /\ Usable(loc[2].tok)

\* C14: the lookup of a stored, unexpired token whose account is inactive fails
\* with Unauthorized and leaves the record stored.
C14_InactiveUnauthorized ==
    [][\A p \in Procs :
         (LookupStep(p) /\ \E t \in tokens :
               t.token = loc[p].tok /\ t.expiresAt >= now /\ ~active[t.userId])
            => (Fails(p, "Unauthorized") /\ tokens' = tokens)]_vars

C14_Witness ==
    /\ Done(2, "refreshAccessToken", "Unauthorized")
    /\ \E t \in tokens :
          t.token = loc[2].tok /\ t.expiresAt >= now /\ ~active[t.userId]

\* The step that is slot p's logout.
LogoutStep(p) == pc[p] = "idle" /\ pc'[p] = "done" /\ loc'[p].op = "logout"

\* C15: logout removes exactly the records with the given token value, changes
\* no other record, succeeds also when no such record exists, and leaves a
\* store on which the same logout removes nothing.
C15_LogoutExact ==
    [][\A p \in Procs :
         LogoutStep(p) =>
            /\ loc'[p].status = "Success"
            /\ tokens' \subseteq tokens
            /\ \A t \in tokens : t \in tokens' <=> t.token # loc'[p].tok
            /\ (~TokenStored(loc'[p].tok)) => tokens' = tokens]_vars

C15_Witness ==
    /\ Done(1, "logout", "Success")
    /\ loc[1].tok \in minted
    /\ ~TokenStored(loc[1].tok)
    /\ \E t \in tokens : t.userId = loc[1].tok.uid

\* The step that is slot p's logoutAll.
LogoutAllStep(p) == pc[p] = "idle" /\ pc'[p] = "done" /\ loc'[p].op = "logoutAll"

\* C16 as stated: logoutAll leaves no record of the user and every record of
\* the other users, and a refreshAccessToken call started after it, with a
\* token it deleted, never succeeds.
C16_Original ==
    [][\A p \in Procs :
         /\ LogoutAllStep(p) =>
               /\ \A t \in tokens' : t.userId # loc'[p].sid
               /\ \A t \in tokens : t.userId # loc'[p].sid => t \in tokens'
         /\ RefreshSucceeds(p) => ~loc[p].afterAll]_vars

\* The step in which slot p's sendOtp learns that the email was not sent.
EmailFails(p) ==
    pc[p] = "send_email" /\ loc[p].op = "sendOtp" /\ Fails(p, "ExternalServiceError")

\* C17: a sendOtp whose email fails ends with ExternalServiceError and changes
\* nothing in the OTP table: the row it stored stays as it is, selectable by
\* verifyOtp and counted in the rate-limit window as before.
C17_FailedEmailKeepsOtp ==
    [][\A p \in Procs :
         EmailFails(p) =>
            /\ otps' = otps
            /\ \A u \in Users :
                  /\ Selectable(emailOf(u))' = Selectable(emailOf(u))
                  /\ RecentCount(emailOf(u))' = RecentCount(emailOf(u))]_vars

C17_Witness ==
    /\ Done(1, "sendOtp", "ExternalServiceError")
    /\ Selectable("e1") # {}
    /\ Newest(Selectable("e1")).id = loc[1].otp
    /\ Newest(Selectable("e1")).attempts = 0
    /\ Newest(Selectable("e1")) \in RecentRows("e1", now)

\* History: an OTP row of the email was stored after the row with this id.
NewerIssued(email, id) == \E i \in issued : i[2] = email /\ i[1] > id

\* C18 as stated: once a later row has been stored for the email, no verifyOtp
\* accepts the code of the older row.
C18_Original ==
    [][\A p \in Procs :
         (pc[p] = "verify_find" /\ pc'[p] = "verify_mark")
            => ~NewerIssued(emailOf(loc[p].sid), loc'[p].otp)]_vars

\* C18 amended: verifyOtp selects the row with the latest createdAt among the
\* unused, unexpired rows of the email, so an older row is passed over for as
\* long as a newer one is unused and unexpired.
C18_Amended ==
    [][\A p \in Procs :
         FindStep(p) =>
            \A r \in otps :
               (r.email = emailOf(loc[p].sid) /\ ~r.isUsed /\ r.expiresAt >= now)
                  => (loc'[p].otp # 0 /\ r.id <= loc'[p].otp)]_vars

C18_Witness ==
    /\ superseded = {}
    /\ \E p \in Procs : Done(p, "verifyOtp", "Success") /\ loc[p].otp = 2
    /\ Selectable("e1") # {}
    /\ Newest(Selectable("e1")).id = 1

\* ACTIVE: unused, unexpired, attempts below the maximum.
Active(r, t) == ~r.isUsed /\ r.expiresAt >= t /\ r.attempts < maxAttempts

\* C19: in every step a stored row keeps its email, code, createdAt and
\* expiresAt, isUsed does not go back to false and attempts does not decrease; a
\* row that is not ACTIVE is not ACTIVE after the step, and the id of a deleted
\* row is not stored again.
C19_LifecycleMonotone ==
    [][/\ \A r \in otps : \A q \in otps' :
             q.id = r.id =>
                /\ q.email = r.email /\ q.otpCode = r.otpCode
                /\ q.createdAt = r.createdAt /\ q.expiresAt = r.expiresAt
                /\ r.isUsed => q.isUsed
                /\ q.attempts >= r.attempts
                /\ Active(q, now') => Active(r, now)
       /\ \A q \in otps' : (\A r \in otps : r.id # q.id) => q.id = nextOtp
       /\ nextOtp' >= nextOtp /\ now' >= now]_vars

C19_Witness ==
    \E r \in otps :
       /\ r.isUsed /\ r.id \in superseded
       /\ r.attempts > 0
       /\ r.expiresAt < now

\* C20 as stated: every OtpInvalid failure reports maxAttempts minus the
\* attempts counter the row has in the store after the call's increment.
C20_Original ==
    [][\A p \in Procs :
         (pc[p] = "verify_increment" /\ Fails(p, "OtpInvalid"))
            => \E r \in otps' :
                  r.id = loc[p].otp /\ loc'[p].n = maxAttempts - r.attempts]_vars

\* The two steps of a cleanup run.
CleanupOtpsStep == cleanup.pc = "idle" /\ cleanup'.pc = "tokens"
CleanupTokensStep == cleanup.pc = "tokens" /\ cleanup'.pc = "idle"

\* C21: a cleanup run deletes the OTP rows and then the refresh-token records
\* whose expiresAt is before the instant the run read the clock, and nothing
\* else; no deleted row is one verifyOtp would select, no deleted record one
\* refreshAccessToken would accept.
C21_CleanupExact ==
    [][/\ CleanupOtpsStep =>
             /\ tokens' = tokens
             /\ otps' \subseteq otps
             /\ \A r \in otps : r \in otps' <=> r.expiresAt >= now
             /\ \A u \in Users : Selectable(emailOf(u))' = Selectable(emailOf(u))
       /\ CleanupTokensStep =>
             /\ otps' = otps
             /\ tokens' \subseteq tokens
             /\ \A t \in tokens : t \in tokens' <=> t.expiresAt >= cleanup.at
             /\ \A t \in tokens \ tokens' : t.expiresAt < now]_vars

C21_Witness ==
    /\ cleanup.pc = "idle" /\ cleanup.runs = 1
    /\ \E tok \in minted : ~TokenStored(tok)
    /\ \E t \in tokens : t.expiresAt >= cleanup.at
    /\ \E i \in issued : ~RowExists(i[1])

\* The step in which a delete of the cleanup job fails.
CleanupFailStep == cleanup'.fails > cleanup.fails

OtpExpiredStored(id) == \E r \in otps : r.id = id /\ r.expiresAt < now
TokenExpiredStored(id) == \E t \in tokens : t.id = id /\ t.expiresAt < now

\* C22: a failed delete of the cleanup job changes neither the store nor any
\* request, and the job runs again: every OTP row and every refresh-token
\* record whose expiry has passed is eventually deleted.
C22_FailedRunRetried ==
    /\ [][CleanupFailStep =>
             (UNCHANGED <<store, pc, loc>> /\ cleanup'.pc = "idle")]_vars
    /\ \A id \in 1..MaxOtps :
          /\ OtpExpiredStored(id) ~> ~RowExists(id)
          /\ TokenExpiredStored(id) ~> ~(\E t \in tokens : t.id = id)

C22_Witness ==
    /\ cleanup.fails > 0 /\ cleanup.pc = "idle"
    /\ \E i \in issued : ~RowExists(i[1])
    /\ \E tok \in minted : ~TokenStored(tok)
    /\ ~ExpiredStored

Accepts(a, isActive) == AuthResult(a, isActive) = "Success"

\* C23: the authenticate check accepts or rejects a token by its signature and
\* expiry alone: with the account rows replaced by any others, the same token
\* at the same time gets the same answer.
C23_Original ==
    \A a \in Presentable : \A rows \in [Users -> BOOLEAN] :
        Accepts(a, rows) <=> Accepts(a, active)

\* C24: verifyOtp selects a row exactly when it is unused and its expiresAt is
\* later than now: a call that finds no unused row of the email with
\* expiresAt > now fails with OtpExpired, and a selected row has expiresAt > now.
C24_Original ==
    [][\A p \in Procs :
         FindStep(p) =>
            LET live == {r \in otps : /\ r.email = emailOf(loc[p].sid)
                                      /\ ~r.isUsed
                                      /\ r.expiresAt > now} IN
            /\ live = {} => Fails(p, "OtpExpired")
            /\ live # {} => loc'[p].otp \in {r.id : r \in live}]_vars

\* C25: the email field of the response of sendOtp and resendOtp is
\* maskEmail of the account's email: the first 3 and last 2 characters of the
\* local part when it is longer than 4, else its first character, and the
\* domain.
C25_Original == mask.op # "-" => mask.reply = maskEmail(mask.email)

\* An older row of the email has used up its attempts.
ExhaustedBefore(r) ==
    \E x \in otps : x.email = r.email /\ x.id < r.id /\ x.attempts >= maxAttempts

\* expiresAt of the row with this id, as it was stored.
ExpiryOf(id) == (CHOOSE i \in issued : i[1] = id)[3] + otpExpiryMinutes

WelcomeStep(p) ==
    /\ pc[p] = "done" /\ loc[p].op = "verifyOtp"
    /\ loc[p].mail = "none" /\ loc'[p].mail \in WelcomeOutcomes

\* C27: however the welcome email of a first verifyOtp settles, the call's
\* outcome and tokens and the store are what they were without it: the OTP
\* used, the account verified, the refresh token stored.
C27_WelcomeBestEffort ==
    [][\A p \in Procs :
         WelcomeStep(p) =>
            /\ UNCHANGED <<store, pc>>
            /\ loc'[p] = [loc[p] EXCEPT !.mail = loc'[p].mail]
            /\ loc'[p].status = "Success"
            /\ verified'[loc[p].sid]
            /\ TokenStored(loc[p].tok)'
            /\ \E r \in otps' : r.id = loc[p].otp /\ r.isUsed]_vars

C27_Witness ==
    \E p \in Procs :
        /\ pc[p] = "done" /\ loc[p].status = "Success"
        /\ loc[p].mail \in {"failed", "threw"}
        /\ TokenStored(loc[p].tok) /\ verified[loc[p].sid]

ResendFailures == {"NotFound", "AccountInactive", "RateLimited"}

\* The step in which a resendOtp call ends with one of the three failures.
ResendFails(p) ==
    /\ pc[p] # "done" /\ pc'[p] = "done"
    /\ loc'[p].op = "resendOtp" /\ loc'[p].status \in ResendFailures

\* C28: a resendOtp that fails with NotFound, AccountInactive or RateLimited
\* has changed no OTP row: it ends at the account check or at the rate-limit
\* check, neither of which writes, so the rows verifyOtp can select are the
\* same after it as before.
C28_FailedResendKeepsRows ==
    [][\A p \in Procs :
         /\ ResendFails(p) =>
               /\ pc[p] \in {"idle", "resend_count"}
               /\ otps' = otps
               /\ \A u \in Users : Selectable(emailOf(u))' = Selectable(emailOf(u))
         /\ (pc[p] \in {"idle", "resend_count"} /\ pc'[p] # pc[p]
               /\ loc'[p].op = "resendOtp") => otps' = otps]_vars

C28_Witness ==
    \E p \in Procs :
        /\ pc[p] = "done" /\ loc[p].op = "resendOtp" /\ loc[p].status = "RateLimited"
        /\ Selectable(emailOf(loc[p].sid)) # {}

\* The step in which a verifyOtp call ends without success.
VerifyFails(p) ==
    /\ pc[p] # "done" /\ pc'[p] = "done"
    /\ loc'[p].op = "verifyOtp" /\ loc'[p].status # "Success"

\* C29: a verifyOtp call that fails has created no refresh token, has not
\* written the verified flag and has not marked its row used; unless it fails
\* with OtpInvalid its last step changes no row, and with OtpInvalid that step
\* adds one to the attempts of the selected row and changes nothing else.
C29_Original ==
    [][\A p \in Procs :
         VerifyFails(p) =>
            /\ tokens' = tokens /\ verified' = verified
            /\ pc[p] # "verify_token"
            /\ \A r \in otps' : r.id = loc'[p].otp => ~r.isUsed
            /\ loc'[p].status # "OtpInvalid" => otps' = otps
            /\ loc'[p].status = "OtpInvalid" =>
                  otps' = {IF r.id = loc'[p].otp
                              THEN [r EXCEPT !.attempts = r.attempts + 1]
                              ELSE r : r \in otps}]_vars

\* A step of a sendOtp call.
SendStep(p) ==
    /\ pc'[p] # pc[p]
    /\ \/ pc[p] \in {"send_count", "send_create", "send_email"}
       \/ pc[p] = "idle" /\ loc'[p].op = "sendOtp"

\* The slot that sets isUsed in this step, if any does.
SetsUsed(p) == pc[p] \in {"resend_invalidate", "verify_mark"} /\ pc'[p] # pc[p]

\* C30: sendOtp changes no stored OTP row; its create step adds exactly one
\* row, with attempts 0, isUsed false and expiresAt = now + the OTP expiry,
\* and its other steps leave the table as it is.  A row's isUsed turns true
\* only in the invalidation of resendOtp or in the mark of verifyOtp.
C30_SendOtpOnlyAdds ==
    [][/\ \A p \in Procs :
            SendStep(p) =>
               /\ otps \subseteq otps'
               /\ IF pc[p] = "send_create"
                     THEN \E r \in otps' :
                             /\ otps' \ otps = {r}
                             /\ ~RowExists(r.id)
                             /\ r.attempts = 0 /\ ~r.isUsed
                             /\ r.expiresAt = now + otpExpiryMinutes
                     ELSE otps' = otps
       /\ (\E r \in otps : \E q \in otps' : q.id = r.id /\ ~r.isUsed /\ q.isUsed)
             => \E p \in Procs : SetsUsed(p)]_vars

C30_Witness ==
    \E p \in Procs :
        /\ pc[p] = "done" /\ loc[p].op = "sendOtp"
        /\ \E r \in otps : r.id = loc[p].otp /\ r.attempts = 0 /\ ~r.isUsed
        /\ \E x \in otps : x.id < loc[p].otp /\ ~x.isUsed /\ x.attempts > 0

\* The step after the OTP row was marked used: the user update and the insert
\* of the refresh token.
TokenStep(p) == pc[p] = "verify_token" /\ pc'[p] # "verify_token"

\* C31: a verifyOtp that has marked its OTP row used stores a refresh-token
\* record for the user and returns success, also when the token it signs is
\* one already stored.
C31_Original ==
    [][\A p \in Procs :
         TokenStep(p) =>
            /\ loc'[p].status = "Success"
            /\ \E t \in tokens' \ tokens :
                  t.userId = loc[p].sid /\ t.token = loc'[p].tok]_vars

\* The step in which verifyOtp marks its row used.
MarkStep(p) == pc[p] = "verify_mark" /\ pc'[p] # "verify_mark"

\* C32: a verifyOtp whose selected row a resendOtp has invalidated after the
\* call read it and before the call marks it used does not go on to a
\* session: it ends there without success.
C32_Original ==
    [][\A p \in Procs :
         (MarkStep(p) /\ loc[p].otp \in superseded)
            => (pc'[p] = "done" /\ loc'[p].status # "Success")]_vars

\* C33: verifyOtp stores no refresh-token record and returns no tokens for an
\* account whose isActive is false.
C33_Original ==
    [][\A p \in Procs :
         (TokenStep(p) /\ ~active[loc[p].sid])
            => (loc'[p].status # "Success" /\ tokens' = tokens)]_vars

\* C34: whatever the cleanup job has deleted, a sendOtp or resendOtp passes
\* the rate-limit check only when fewer than rateLimitMaxRequests rows were
\* stored for the email inside the window that ends now.
C34_Original ==
    [][\A p \in Procs :
         (CountStep(p) /\ pc'[p] # "done")
            => Cardinality(IssuedInWindow(emailOf(loc[p].sid))) < rateLimitMaxRequests]_vars

\* The positions inside sendOtp and resendOtp.
IssuanceLabels ==
    {"send_count", "send_create", "send_email",
     "resend_count", "resend_invalidate", "resend_create", "resend_email"}

\* The step in which a resendOtp that passed its checks completes.
ResendCompletes(p) == pc[p] = "resend_email" /\ pc'[p] = "done"

Unused(email) == {r \in otps : r.email = email /\ ~r.isUsed}

\* C35: when a resendOtp that passed its checks completes and no other
\* issuance call is in progress, the email has exactly one row with
\* isUsed = false, whatever sendOtp or resendOtp ran alongside it.
C35_Original ==
    [][\A p \in Procs :
         (ResendCompletes(p) /\ \A q \in Procs \ {p} : pc[q] \notin IssuanceLabels)
            => Cardinality(Unused(emailOf(loc[p].sid))') = 1]_vars

\* C36: the email field of the response of sendOtp and resendOtp is never the
\* account's whole email address.
C36_Original == mask.op # "-" => mask.reply # mask.email

\* C37: capacityCurrent of the event never exceeds its capacityMax, with
\* registerForEvent and cancelRegistration of different users in flight
\* together.
C37_Original == event.capacityCurrent <= event.capacityMax

\* C38: a user with role ADMIN exists in every state, with changeUserRole,
\* toggleUserActive and deleteUser of different administrators in flight
\* together.
C38_Original == \E a \in Admins : accounts[a].exists /\ accounts[a].role = "ADMIN"
====
